---------------------------- MODULE Spec2Model ----------------------------
(***************************************************************************)
(* Model of src/app.py: the Flask reminder service.  A background thread   *)
(* (init_all) brings up a Selenium WebDriver and a Google Sheets worksheet *)
(* under _init_lock; the routes /, /qr.png, /status, /preview,             *)
(* /send_pending and /ping first call ensure_init_async and then read the  *)
(* module globals driver, wks and _initialized without any lock.           *)
(*                                                                         *)
(* The worksheet, the clock and the outcome of every external call         *)
(* (build_driver, the login poll, init_gspread, send_whatsapp_text,        *)
(* update_cell) are the environment: the configuration is drawn from      *)
(* bounded sets in Init, the worksheet when the program first reads it,    *)
(* and the outcomes are chosen with \E in the step that makes the call.    *)
(***************************************************************************)
EXTENDS Integers, Sequences, FiniteSets

\* ------------------------------------------------------------- bounds
\* Data rows of the worksheet (below the header row).
MaxRows == 2
\* HTTP requests admitted in one run, over all routes.
MaxRequests == 2

\* Request-handling threads that may be inside a handler at the same time
\* (Flask's development server of line 336 serves each request on a thread).
Handlers == {1, 2}

\* ------------------------------------------------ Python values used
\* Python's None.
None == "None"

\* The marker written by line 318 and compared at lines 265 and 302.
SI == "sí"

\* str.strip() on the cell texts of the model: surrounding blanks removed.
Strip(s) ==
    CASE s = " SÍ "       -> "SÍ"
      [] s = " Ana "      -> "Ana"
      [] s = "  "         -> ""
      [] s = " 02/05/24 " -> "02/05/24"
      [] OTHER            -> s

\* str.lower() on the cell texts of the model.
Lower(s) ==
    CASE s = "SÍ"   -> "sí"
      [] s = "Sí"   -> "sí"
      [] s = "NO"   -> "no"
      [] OTHER      -> s

\* `x or ""` / `a or b`: Python's `or` on cell values (None and "" are falsy).
Or(a, b) == IF a = None \/ a = "" THEN b ELSE a

\* Calendar dates are written as the number yyyymmdd, which orders them as
\* datetime.date orders them.
Day(n) == 20240500 + n

\* parse_ddmmyy's `return None` (lines 64 and 71), among the dates.
NoDate == 0

\* dateutil's parse(s, dayfirst=True).date() on the date texts of the model;
\* NoDate stands for the exception it raises on a text that is no date.
dtparse(s) ==
    CASE s = "01/05/24"   -> Day(1)
      [] s = "1/5/2024"   -> Day(1)
      [] s = "02/05/24"   -> Day(2)
      [] s = "03/05/2024" -> Day(3)
      [] OTHER            -> NoDate

\* parse_ddmmyy, lines 60-71.
parse_ddmmyy(raw) ==
    LET s == Strip(Or(raw, ""))
    IN  IF s = "" THEN NoDate ELSE dtparse(s)

\* date.isoformat() (line 269) and strftime('%d/%m/%Y') (line 308).
isoformat(d) ==
    CASE d = Day(1) -> "2024-05-01"
      [] d = Day(2) -> "2024-05-02"
      [] d = Day(3) -> "2024-05-03"

strftime(d) ==
    CASE d = Day(1) -> "01/05/2024"
      [] d = Day(2) -> "02/05/2024"
      [] d = Day(3) -> "03/05/2024"

\* ------------------------------------------------------ the worksheet
\* Header rows (row 1 of the worksheet) of the model: one with the three
\* accepted date labels and the sent-flag column, and one without the
\* "Enviado" column.
HeaderRows ==
    { <<"Nombre", "Fecha", "Fecha (dd/mm/yy)", "Fecha(dd/mm/yy)", "Enviado">>,
      <<"Nombre", "Cargo", "Fecha">> }

Labels == {"Nombre", "Cargo", "Fecha", "Fecha (dd/mm/yy)", "Fecha(dd/mm/yy)", "Enviado"}

\* The data rows of the model, one value per label; a worksheet keeps of each
\* only the columns its header row has.
RowKinds ==
    { [l \in Labels |->
         CASE l = "Nombre" -> " Ana " [] l = "Cargo" -> "Jefa"
           [] l = "Fecha" -> "01/05/24" [] l = "Enviado" -> ""
           [] l = "Fecha (dd/mm/yy)" -> "02/05/24" [] OTHER -> "1/5/2024"],
      [l \in Labels |->
         CASE l = "Nombre" -> "Eva" [] l = "Cargo" -> "Dev"
           [] l = "Fecha" -> "bad-date" [] l = "Enviado" -> ""
           [] l = "Fecha (dd/mm/yy)" -> "" [] OTHER -> "01/05/24"],
      [l \in Labels |->
         CASE l = "Nombre" -> "Eva" [] l = "Cargo" -> "Dev"
           [] l = "Fecha" -> "1/5/2024" [] l = "Enviado" -> " SÍ "
           [] l = "Fecha (dd/mm/yy)" -> "" [] OTHER -> "01/05/24"],
      [l \in Labels |->
         CASE l = "Nombre" -> "Luis" [] l = "Cargo" -> ""
           [] l = "Fecha" -> "" [] l = "Enviado" -> ""
           [] l = "Fecha (dd/mm/yy)" -> " 02/05/24 " [] OTHER -> "01/05/24"],
      [l \in Labels |->
         CASE l = "Nombre" -> "" [] l = "Cargo" -> ""
           [] l = "Fecha" -> "" [] l = "Enviado" -> "no"
           [] l = "Fecha (dd/mm/yy)" -> "  " [] OTHER -> "02/05/24"] }

\* The labels of a header row.
Range(f) == { f[i] : i \in DOMAIN f }

\* A data row of a worksheet with header row hd: a mapping from hd's labels.
RowsOf(hd) == { [l \in Range(hd) |-> k[l]] : k \in RowKinds }

\* Sequences over S of length at most n.
SeqUpTo(S, n) == UNION { [1..m -> S] : m \in 0..n }

\* get_all_records(): the data rows as dicts keyed by the header row, in
\* worksheet order (lines 256 and 293).
get_all_records(sheet) == sheet.rows

\* row_values(1): the header row (line 287).
row_values1(sheet) == sheet.header

\* dict.get(key): None when the key is missing.
Get(row, key) == IF key \in DOMAIN row THEN row[key] ELSE None

\* IndexOf that answers column 1 for a label the header row lacks.
IndexOfOrFirst(hd, label) ==
    IF \E i \in DOMAIN hd : hd[i] = label
    THEN (CHOOSE i \in DOMAIN hd : hd[i] = label /\ \A j \in 1..(i-1) : hd[j] # label)
    ELSE 1

\* headers.index(label) + 1 (line 289): the 1-based column of the first
\* cell of the header row that holds the label; 0 stands for the ValueError.
IndexOf(hd, label) ==
    IF \E i \in DOMAIN hd : hd[i] = label
    THEN (CHOOSE i \in DOMAIN hd : hd[i] = label /\ \A j \in 1..(i-1) : hd[j] # label)
    ELSE 0

\* update_cell that takes idx for the position among the data rows,
\* forgetting the header row.
update_cell_no_offset(sheet, idx, col, value) ==
    IF idx \in DOMAIN sheet.rows
    THEN [sheet EXCEPT !.rows[idx][sheet.header[col]] = value]
    ELSE sheet

\* update_cell that writes one column to the left of col.
update_cell_prev_col(sheet, idx, col, value) ==
    [sheet EXCEPT !.rows[idx - 1][sheet.header[col - 1]] = value]

\* update_cell(idx, col, value) (line 318): worksheet row idx is data row
\* idx - 1, column col is the column the header row labels hd[col].
update_cell(sheet, idx, col, value) ==
    [sheet EXCEPT !.rows[idx - 1][sheet.header[col]] = value]

\* ------------------------------------------------ selection of due rows
\* The date cell of a row: the first non-empty of the three accepted labels
\* (lines 263 and 299).
FechaCell(row) ==
    Or(Or(Get(row, "Fecha"), Get(row, "Fecha (dd/mm/yy)")), Get(row, "Fecha(dd/mm/yy)"))

\* EnviadoOf without the lower(): the flag is compared as typed.
EnviadoOfNoLower(row) == Strip(Or(Get(row, "Enviado"), ""))

\* Lines 264 and 300: the sent flag, trimmed and lower-cased.
EnviadoOf(row) == Lower(Strip(Or(Get(row, "Enviado"), "")))

\* Lines 260-261 and 297-298.
NombreOf(row) == Strip(Or(Get(row, "Nombre"), ""))
CargoOf(row) == Strip(Or(Get(row, "Cargo"), ""))

\* ModeMatches with `<` for the `<=` of until_today.
ModeMatchesStrict(mode, fecha, hoy) ==
    \/ mode = "today" /\ fecha = hoy
    \/ mode = "until_today" /\ fecha < hoy

\* The mode test of lines 268 and 304.
ModeMatches(mode, fecha, hoy) ==
    \/ mode = "today" /\ fecha = hoy
    \/ mode = "until_today" /\ fecha <= hoy

\* preview, lines 263-268: whether the row is appended to `pending`.
PreviewSelects(row, mode, hoy) ==
    LET fecha == parse_ddmmyy(FechaCell(row))
        enviado == EnviadoOf(row)
    IN  IF enviado = SI \/ fecha = NoDate
        THEN FALSE
        ELSE ModeMatches(mode, fecha, hoy)

\* SendSelects without the test of the "Enviado" cell (lines 301-302).
SendSelectsIgnoringMarker(row, mode, hoy) ==
    LET fecha == parse_ddmmyy(FechaCell(row))
    IN  IF fecha = NoDate
        THEN FALSE
        ELSE IF ~ModeMatches(mode, fecha, hoy) THEN FALSE ELSE TRUE

\* send_pending, lines 299-305: whether the row reaches the send loop.
SendSelects(row, mode, hoy) ==
    LET fecha == parse_ddmmyy(FechaCell(row))
        enviado == EnviadoOf(row)
    IN  IF enviado = SI \/ fecha = NoDate
        THEN FALSE
        ELSE IF ~ModeMatches(mode, fecha, hoy) THEN FALSE ELSE TRUE

\* preview, lines 257-269: the list `pending` after the loop over
\* enumerate(records, start=2), built from position i on.
RECURSIVE PendingFrom(_, _, _, _)
PendingFrom(records, i, mode, hoy) ==
    IF i > Len(records) THEN <<>>
    ELSE LET row == records[i]
             rest == PendingFrom(records, i + 1, mode, hoy)
         IN  IF PreviewSelects(row, mode, hoy)
             THEN <<[row |-> i + 1, Nombre |-> NombreOf(row), Cargo |-> CargoOf(row),
                     Fecha |-> isoformat(parse_ddmmyy(FechaCell(row)))]>> \o rest
             ELSE rest

\* send_pending, lines 296-305: the position in `records` of the next row at
\* or after position i that is not skipped by a `continue`; Len + 1 when the
\* loop runs out.
RECURSIVE NextSel(_, _, _, _)
NextSel(records, i, mode, hoy) ==
    IF i > Len(records) THEN i
    ELSE IF SendSelects(records[i], mode, hoy) THEN i
         ELSE NextSel(records, i + 1, mode, hoy)

\* Line 308: the message text of a row.
Mensaje(row) ==
    [Nombre |-> NombreOf(row), Cargo |-> CargoOf(row),
     Fecha |-> strftime(parse_ddmmyy(FechaCell(row)))]

\* ---------------------------------------------------------------- state
VARIABLES
    driver,         \* module global of lines 33/127: None or the WebDriver
    wks,            \* module global of lines 34/128: None or the worksheet
    _initialized,   \* module global of line 130
    _init_lock,     \* line 129: 0 when free, else the init thread holding it
    threads,        \* the init_all threads started by line 162, in start order
    stdout,         \* how often init_all printed each of its lines (142, 151, 154)
    DEST_NUMBERS,   \* line 26, fixed at start-up
    SEND_MODE,      \* line 27, fixed at start-up
    sheet,          \* the worksheet at Google: [header, rows]; Unread until
                    \* the program first reads it
    clock,          \* the calendar date in MX_TZ when today_mx() was last called
    pass,           \* per handler thread: the locals of its send_pending call
    response,       \* the response most recently returned by a route
    nRequests,      \* requests admitted so far
    delivered,      \* worksheet rows some pass has sent to every destination
    last            \* what the send_pending call that returned last left

vars == <<driver, wks, _initialized, _init_lock, threads, stdout, DEST_NUMBERS,
          SEND_MODE, sheet, clock, pass, response, nRequests, delivered, last>>

coordinator == <<driver, wks, _initialized, _init_lock, stdout>>
config == <<DEST_NUMBERS, SEND_MODE>>

\* The worksheets of the model: a header row and at most MaxRows data rows.
Sheets ==
    UNION { { [header |-> hd, rows |-> rs] : rs \in SeqUpTo(RowsOf(hd), MaxRows) } :
            hd \in HeaderRows }

\* The worksheet is Google's, not the program's: its content is whatever it
\* is when the program first reads it.  Until then the model leaves it open
\* (Unread), and the first read fixes it to one of Sheets.
Unread == [header |-> <<>>, rows |-> <<>>]

\* What a read of the worksheet may find.
Fetch == IF sheet = Unread THEN Sheets ELSE {sheet}

\* The locals of a handler thread that is not inside send_pending.
\* attempts are the send_whatsapp_text calls made so far for the row at
\* hand, failed the rows for which a send raised (the rows of the "Error
\* enviando" lines printed at line 315).
IdlePass ==
    [pc |-> "idle", hoy |-> NoDate, col |-> 0, records |-> <<>>,
     i |-> 0, ok_all |-> TRUE, sent |-> <<>>, attempts |-> <<>>,
     failed |-> {}]

\* What a send_pending call with locals p leaves when it returns status
\* code `code`, the worksheet being sh: the code, the date the call used,
\* the rows for which a send raised and the worksheet.
Returned(p, code, sh) ==
    [ret |-> code, hoy |-> p.hoy, failed |-> p.failed, after |-> sh]

\* No send_pending call has returned yet.
NoCall == [ret |-> 0, hoy |-> NoDate, failed |-> {}, after |-> Unread]

NoResponse == [route |-> "", code |-> 0, body |-> <<>>]

\* Process start: lines 126-130 and the configuration of lines 26-27.
InitCommon ==
    /\ _init_lock = 0
    /\ threads = <<>>
    /\ stdout = [creando |-> 0, ok |-> 0, error |-> 0]
    /\ DEST_NUMBERS \in { <<>>, <<"5215500000001", "5215500000002">> }
    /\ SEND_MODE \in { "today", "until_today" }
    /\ sheet = Unread
    /\ clock = Day(1)
    /\ pass = [h \in Handlers |-> IdlePass]
    /\ response = NoResponse
    /\ nRequests = 0
    /\ delivered = {}
    /\ last = NoCall

Init ==
    /\ driver = None
    /\ wks = None
    /\ _initialized = FALSE
    /\ InitCommon

\* ------------------------------------------------------ bring-up
\* ensure_init_async, lines 156-162: the init threads after the call.  A
\* thread has its position in init_all (pc), init_all's locals d and ws,
\* the call that raised in it (err) and the number of "Init error" lines
\* printed before it was started (born).
ensure_init_async ==
    IF ~_initialized
    THEN Append(threads, [pc |-> "start", d |-> None, ws |-> None, err |-> None,
                          born |-> stdout.error])
    ELSE threads

\* The except branch of init_all (lines 152-154) and the release of the lock
\* at the end of the with block.
InitFails(t, what) ==
    /\ threads' = [threads EXCEPT ![t].pc = "done", ![t].err = what]
    /\ stdout' = [stdout EXCEPT !.error = @ + 1]
    /\ _init_lock' = 0
    /\ UNCHANGED <<driver, wks, _initialized>>

\* InitEnter without the check of lines 139-140.
InitEnterNoFlagCheck(t) ==
    /\ threads[t].pc = "start"
    /\ _init_lock = 0
    /\ threads' = [threads EXCEPT ![t].pc = "build"]
    /\ _init_lock' = t
    /\ stdout' = [stdout EXCEPT !.creando = @ + 1]
    /\ UNCHANGED <<driver, wks, _initialized, config, sheet, clock, pass, response,
                   nRequests, delivered, last>>

\* InitEnter without the lock of line 138.
InitEnterNoLock(t) ==
    /\ threads[t].pc = "start"
    /\ IF _initialized
       THEN /\ threads' = [threads EXCEPT ![t].pc = "done"]
            /\ UNCHANGED <<_init_lock, stdout>>
       ELSE /\ threads' = [threads EXCEPT ![t].pc = "build"]
            /\ _init_lock' = t
            /\ stdout' = [stdout EXCEPT !.creando = @ + 1]
    /\ UNCHANGED <<driver, wks, _initialized, config, sheet, clock, pass, response,
                   nRequests, delivered, last>>

\* init_all, lines 138-142: take the lock, return if already initialised,
\* else enter the bring-up body.
InitEnter(t) ==
    /\ threads[t].pc = "start"
    /\ _init_lock = 0
    /\ IF _initialized
       THEN /\ threads' = [threads EXCEPT ![t].pc = "done"]
            /\ UNCHANGED <<_init_lock, stdout>>
       ELSE /\ threads' = [threads EXCEPT ![t].pc = "build"]
            /\ _init_lock' = t
            /\ stdout' = [stdout EXCEPT !.creando = @ + 1]
    /\ UNCHANGED <<driver, wks, _initialized, config, sheet, clock, pass, response,
                   nRequests, delivered, last>>

\* init_all, line 143: d = build_driver(), which returns or raises.
InitBuild(t) ==
    /\ threads[t].pc = "build"
    /\ \E built \in BOOLEAN :
          IF built
          THEN /\ threads' = [threads EXCEPT ![t].pc = "connect", ![t].d = "WebDriver"]
               /\ UNCHANGED coordinator
          ELSE InitFails(t, "build_driver")
    /\ UNCHANGED <<config, sheet, clock, pass, response, nRequests, delivered, last>>

\* ensure_logged_in, lines 92-101, as called with the module global `driver`:
\* "raises" when driver is None (line 93 calls driver.get), else the result of
\* the poll ("True" at line 98, "False" at line 101).
ensure_logged_in(drv) ==
    IF drv = None THEN {"raises"} ELSE {"True", "False"}

\* init_all, lines 145-147: the login poll on the module global `driver`
\* (not on the local d), then ws = init_gspread(), which returns or raises.
InitConnect(t) ==
    /\ threads[t].pc = "connect"
    /\ \E logged \in ensure_logged_in(driver), ws \in {None, "Worksheet"} :
          IF logged = "raises"
          THEN InitFails(t, "ensure_logged_in")
          ELSE IF ws = None
          THEN InitFails(t, "init_gspread")
          ELSE /\ threads' = [threads EXCEPT ![t].pc = "set_driver", ![t].ws = ws]
               /\ UNCHANGED coordinator
    /\ UNCHANGED <<config, sheet, clock, pass, response, nRequests, delivered, last>>

\* init_all, line 148: driver = d.
InitSetDriver(t) ==
    /\ threads[t].pc = "set_driver"
    /\ driver' = threads[t].d
    /\ threads' = [threads EXCEPT ![t].pc = "set_wks"]
    /\ UNCHANGED <<wks, _initialized, _init_lock, stdout>>
    /\ UNCHANGED <<config, sheet, clock, pass, response, nRequests, delivered, last>>

\* init_all, line 149: wks = ws.
InitSetWks(t) ==
    /\ threads[t].pc = "set_wks"
    /\ wks' = threads[t].ws
    /\ threads' = [threads EXCEPT ![t].pc = "set_flag"]
    /\ UNCHANGED <<driver, _initialized, _init_lock, stdout>>
    /\ UNCHANGED <<config, sheet, clock, pass, response, nRequests, delivered, last>>

\* init_all, lines 150-151 and the release of the lock at the end of the
\* with block: _initialized = True, "Init OK" printed.
InitSetFlag(t) ==
    /\ threads[t].pc = "set_flag"
    /\ _initialized' = TRUE
    /\ stdout' = [stdout EXCEPT !.ok = @ + 1]
    /\ _init_lock' = 0
    /\ threads' = [threads EXCEPT ![t].pc = "done"]
    /\ UNCHANGED <<driver, wks>>
    /\ UNCHANGED <<config, sheet, clock, pass, response, nRequests, delivered, last>>

\* ------------------------------------------------------------ routes
\* today_mx(), lines 73-74: the date is the one read last, or a later one.
today_mx == {clock} \cup (IF clock < Day(2) THEN {clock + 1} ELSE {})

\* What every route but send_pending leaves alone.
RouteFrame ==
    /\ nRequests < MaxRequests
    /\ nRequests' = nRequests + 1
    /\ UNCHANGED <<coordinator, config, pass, delivered, last>>

\* home, lines 164-206.
home ==
    /\ RouteFrame
    /\ threads' = ensure_init_async
    /\ UNCHANGED <<sheet, clock>>
    /\ \E ready \in (IF _initialized THEN ensure_logged_in(driver) ELSE {"False"}) :
          response' =
              [route |-> "/", code |-> 200,
               body |-> IF ~_initialized THEN "Inicializando"
                        ELSE IF ready = "True" THEN "Sesion lista"
                        ELSE "Escanea el QR"]

\* qr_png, lines 208-219: an empty PNG without a driver or when the
\* screenshot raises.
qr_png ==
    /\ RouteFrame
    /\ threads' = ensure_init_async
    /\ UNCHANGED <<sheet, clock>>
    /\ \E png \in (IF driver = None THEN {"empty"} ELSE {"screenshot", "empty"}) :
          response' = [route |-> "/qr.png", code |-> 200, body |-> png]

\* status, lines 221-241.
status ==
    /\ RouteFrame
    /\ threads' = ensure_init_async
    /\ UNCHANGED <<sheet, clock>>
    /\ \E logged \in (IF driver # None THEN ensure_logged_in(driver) ELSE {"False"}) :
          response' =
              [route |-> "/status", code |-> 200,
               body |-> [initialized |-> _initialized,
                         driver |-> driver # None,
                         worksheet |-> wks # None,
                         logged_in |-> logged = "True"]]

\* A preview that marks the first row it lists, as send_pending does.
previewMarking ==
    /\ RouteFrame
    /\ threads' = ensure_init_async
    /\ IF wks = None
       THEN /\ response' = [route |-> "/preview", code |-> 503,
                            body |-> "Sheets no inicializado"]
            /\ UNCHANGED <<sheet, clock>>
       ELSE \E hoy \in today_mx, sh \in Fetch :
               LET to_send == PendingFrom(get_all_records(sh), 1, SEND_MODE, hoy)
                   col == IndexOf(row_values1(sh), "Enviado")
               IN  /\ clock' = hoy
                   /\ sheet' = IF to_send # <<>> /\ col # 0
                                THEN update_cell(sh, to_send[1].row, col, SI)
                                ELSE sh
                   /\ response' =
                         [route |-> "/preview", code |-> 200, seen |-> sh,
                          body |-> [today |-> isoformat(hoy), mode |-> SEND_MODE,
                                    to_send |-> to_send]]

\* preview, lines 243-271; seen is the worksheet as line 256 read it.
preview ==
    /\ RouteFrame
    /\ threads' = ensure_init_async
    /\ IF wks = None
       THEN /\ response' = [route |-> "/preview", code |-> 503,
                            body |-> "Sheets no inicializado"]
            /\ UNCHANGED <<sheet, clock>>
       ELSE \E hoy \in today_mx, sh \in Fetch :
               /\ clock' = hoy
               /\ sheet' = sh
               /\ response' =
                     [route |-> "/preview", code |-> 200, seen |-> sh,
                      body |-> [today |-> isoformat(hoy), mode |-> SEND_MODE,
                                to_send |-> PendingFrom(get_all_records(sh), 1,
                                                        SEND_MODE, hoy)]]

\* ping, lines 325-327.
ping ==
    /\ RouteFrame
    /\ UNCHANGED <<threads, sheet, clock>>
    /\ response' = [route |-> "/ping", code |-> 200, body |-> "pong"]

\* The return of line 323, from the locals p of the pass.
SentResponse(p) ==
    [route |-> "/send_pending", code |-> 200,
     body |-> [today |-> isoformat(p.hoy), mode |-> SEND_MODE,
               sent |-> p.sent, count |-> Len(p.sent)]]

\* A send_pending call that ends before its loop with an error response.
Refused(h, code, why, sh) ==
    /\ pass' = [pass EXCEPT ![h] = IdlePass]
    /\ last' = Returned(IdlePass, code, sh)
    /\ response' = [route |-> "/send_pending", code |-> code, body |-> why]

\* Precondition without the guards of lines 281-284 on the two handles.
PreconditionDestOnly(dest, drv, ws) ==
    IF dest = <<>> THEN 400 ELSE 0

\* The guards of lines 279-284: the status code of the error response, or 0
\* when the call goes on.
Precondition(dest, drv, ws) ==
    IF dest = <<>> THEN 400
    ELSE IF drv = None THEN 503
    ELSE IF ws = None THEN 503
    ELSE 0

\* send_pending, lines 278-305 up to the first row that is not skipped: the
\* guards, the header row, the snapshot of the records.
send_pending(h) ==
    /\ nRequests < MaxRequests
    /\ pass[h].pc = "idle"
    /\ nRequests' = nRequests + 1
    /\ threads' = ensure_init_async
    /\ LET pre == Precondition(DEST_NUMBERS, driver, wks)
       IN  IF pre # 0
           THEN /\ Refused(h, pre, "precondition", sheet)
                /\ UNCHANGED <<sheet, clock>>
           ELSE \E hoy \in today_mx, sh \in Fetch :
                  LET col_enviado == IndexOf(row_values1(sh), "Enviado")
                      records == get_all_records(sh)
                      first == NextSel(records, 1, SEND_MODE, hoy)
                      p == [IdlePass EXCEPT !.hoy = hoy, !.col = col_enviado,
                                            !.records = records, !.i = first]
                  IN  /\ clock' = hoy
                      /\ sheet' = sh
                      /\ IF col_enviado = 0
                         THEN Refused(h, 400, "No se encontro la columna 'Enviado'", sh)
                         ELSE IF first > Len(records)
                         THEN /\ pass' = [pass EXCEPT ![h] = IdlePass]
                              /\ last' = Returned(p, 200, sh)
                              /\ response' = SentResponse(p)
                         ELSE /\ pass' = [pass EXCEPT ![h] = [p EXCEPT !.pc = "send"]]
                              /\ UNCHANGED <<response, last>>
    /\ UNCHANGED <<coordinator, config, delivered>>

\* SendStep that goes through DEST_NUMBERS from its last number to its first.
SendStepReversed(h) ==
    /\ pass[h].pc = "send"
    /\ LET p == pass[h]
           idx == p.i + 1
           n == Len(DEST_NUMBERS)
       IN  \E oks \in [DOMAIN DEST_NUMBERS -> BOOLEAN] :
              LET ok_all == \A k \in DOMAIN DEST_NUMBERS : oks[k]
              IN  /\ pass' = [pass EXCEPT ![h] =
                                [p EXCEPT !.attempts =
                                              [k \in DOMAIN DEST_NUMBERS |->
                                                 [row |-> idx, num |-> DEST_NUMBERS[n + 1 - k],
                                                  ok |-> oks[k]]],
                                          !.ok_all = ok_all,
                                          !.failed = IF ok_all THEN @ ELSE @ \cup {idx},
                                          !.pc = "confirm"]]
                  /\ delivered' = IF ok_all THEN delivered \cup {idx} ELSE delivered
    /\ UNCHANGED <<coordinator, threads, config, sheet, clock, response, nRequests, last>>

\* SendStep in which the first send_whatsapp_text call that raises ends the
\* request with a 500 response, the exception not being caught.
SendStepAborting(h) ==
    /\ pass[h].pc = "send"
    /\ LET p == pass[h]
           idx == p.i + 1
       IN  \E oks \in [DOMAIN DEST_NUMBERS -> BOOLEAN] :
              LET ok_all == \A k \in DOMAIN DEST_NUMBERS : oks[k]
              IN  IF ok_all
                  THEN /\ pass' = [pass EXCEPT ![h] =
                                     [p EXCEPT !.attempts =
                                                   [k \in DOMAIN DEST_NUMBERS |->
                                                      [row |-> idx, num |-> DEST_NUMBERS[k],
                                                       ok |-> TRUE]],
                                               !.pc = "confirm"]]
                       /\ delivered' = delivered \cup {idx}
                       /\ UNCHANGED <<response, last>>
                  ELSE /\ pass' = [pass EXCEPT ![h] = IdlePass]
                       /\ last' = Returned([p EXCEPT !.failed = @ \cup {idx}], 500, sheet)
                       /\ response' = [route |-> "/send_pending", code |-> 500,
                                       body |-> "send_whatsapp_text"]
                       /\ UNCHANGED delivered
    /\ UNCHANGED <<coordinator, threads, config, sheet, clock, nRequests>>

\* send_pending, lines 309-315: the loop over DEST_NUMBERS for one row, a
\* send_whatsapp_text call per number in the order of the list; each call
\* returns or raises, and the exception is caught and clears ok_all.  The
\* calls touch nothing another thread reads, so the loop is one step.
SendStep(h) ==
    /\ pass[h].pc = "send"
    /\ LET p == pass[h]
           idx == p.i + 1
       IN  \E oks \in [DOMAIN DEST_NUMBERS -> BOOLEAN] :
              LET ok_all == \A k \in DOMAIN DEST_NUMBERS : oks[k]
              IN  /\ pass' = [pass EXCEPT ![h] =
                                [p EXCEPT !.attempts =
                                              [k \in DOMAIN DEST_NUMBERS |->
                                                 [row |-> idx, num |-> DEST_NUMBERS[k],
                                                  ok |-> oks[k]]],
                                          !.ok_all = ok_all,
                                          !.failed = IF ok_all THEN @ ELSE @ \cup {idx},
                                          !.pc = "confirm"]]
                  /\ delivered' = IF ok_all THEN delivered \cup {idx} ELSE delivered
    /\ UNCHANGED <<coordinator, threads, config, sheet, clock, response, nRequests, last>>

\* send_pending, lines 317-323: the write-back of a row whose sends all
\* succeeded, then on to the next row that is not skipped, or the return.
\* update_cell is a call to Google: it returns or raises, and nothing
\* catches its exception, so the call ends with a 500 response.
ConfirmStep(h) ==
    /\ pass[h].pc = "confirm"
    /\ LET p == pass[h]
           idx == p.i + 1
           next == NextSel(p.records, p.i + 1, SEND_MODE, p.hoy)
       IN  \E written \in (IF p.ok_all THEN BOOLEAN ELSE {FALSE}) :
              IF p.ok_all /\ ~written
              THEN /\ pass' = [pass EXCEPT ![h] = IdlePass]
                   /\ last' = Returned(p, 500, sheet)
                   /\ response' = [route |-> "/send_pending", code |-> 500,
                                   body |-> "update_cell"]
                   /\ UNCHANGED sheet
              ELSE LET sh == IF p.ok_all THEN update_cell(sheet, idx, p.col, SI) ELSE sheet
                       q == [p EXCEPT !.sent = IF p.ok_all
                                               THEN Append(@, [row |-> idx,
                                                               Nombre |-> NombreOf(p.records[p.i])])
                                               ELSE @,
                                      !.i = next, !.ok_all = TRUE,
                                      !.attempts = <<>>]
                   IN  /\ sheet' = sh
                       /\ IF next > Len(p.records)
                          THEN /\ pass' = [pass EXCEPT ![h] = IdlePass]
                               /\ last' = Returned(q, 200, sh)
                               /\ response' = SentResponse(q)
                          ELSE /\ pass' = [pass EXCEPT ![h] = [q EXCEPT !.pc = "send"]]
                               /\ UNCHANGED <<response, last>>
    /\ UNCHANGED <<coordinator, threads, config, clock, nRequests, delivered>>

\* The steps of the init threads and of the handler threads.  The handler
\* threads are interchangeable: a send_pending request is served by the free
\* one of lowest number.
init_all_enter == \E t \in DOMAIN threads : InitEnter(t)
init_all_build == \E t \in DOMAIN threads : InitBuild(t)
init_all_connect == \E t \in DOMAIN threads : InitConnect(t)
init_all_set_driver == \E t \in DOMAIN threads : InitSetDriver(t)
init_all_set_wks == \E t \in DOMAIN threads : InitSetWks(t)
init_all_set_flag == \E t \in DOMAIN threads : InitSetFlag(t)
send_pending_call ==
    \E h \in Handlers :
        /\ \A g \in Handlers : g < h => pass[g].pc # "idle"
        /\ send_pending(h)
send_pending_send == \E h \in Handlers : SendStep(h)
send_pending_confirm == \E h \in Handlers : ConfirmStep(h)

\* --------------------------------------------------- specifications
\* The program from process start.  The send loop of send_pending
\* (SendStep, ConfirmStep) and the assignments of lines 148-150 are not
\* among its steps: DispatchUnreachable and PublishUnreachable below show
\* that no call gets past the guards of lines 281-284 and that no init
\* thread gets past line 145.
Next ==
    \/ home \/ qr_png \/ status \/ preview \/ ping
    \/ send_pending_call
    \/ init_all_enter \/ init_all_build \/ init_all_connect

Spec == Init /\ [][Next]_vars

\* The routes with both handles published: the state that lines 148-150
\* establish.
InitReady ==
    /\ driver = "WebDriver"
    /\ wks = "Worksheet"
    /\ _initialized = TRUE
    /\ InitCommon

NextReady ==
    \/ home \/ qr_png \/ status \/ preview \/ ping
    \/ send_pending_call \/ send_pending_send \/ send_pending_confirm

SpecReady == InitReady /\ [][NextReady]_vars

\* In Spec no send_pending call ever enters its loop.
DispatchUnreachable == \A h \in Handlers : pass[h].pc = "idle"

\* In Spec no init thread ever reaches the assignments of lines 148-150.
PublishUnreachable ==
    \A t \in DOMAIN threads : threads[t].pc \in {"start", "build", "connect", "done"}

\* A worksheet with the "Enviado" column and one row, due on the first day.
OneDueRow ==
    CHOOSE sh \in Sheets :
        /\ "Enviado" \in Range(sh.header)
        /\ Len(sh.rows) = 1
        /\ sh.rows[1]["Nombre"] = " Ana "

\* The assignments of lines 148-150: an init thread holds the lock and has
\* d and ws in hand (lines 143-147 have returned), the globals are still as
\* lines 127-130 left them, and the routes are served meanwhile.  The
\* worksheet has one due row.
InitPublish ==
    /\ driver = None
    /\ wks = None
    /\ _initialized = FALSE
    /\ _init_lock = 1
    /\ threads = << [pc |-> "set_driver", d |-> "WebDriver", ws |-> "Worksheet",
                     err |-> None, born |-> 0] >>
    /\ stdout = [creando |-> 1, ok |-> 0, error |-> 0]
    /\ DEST_NUMBERS \in { <<>>, <<"5215500000001", "5215500000002">> }
    /\ SEND_MODE \in { "today", "until_today" }
    /\ sheet = OneDueRow
    /\ clock = Day(1)
    /\ pass = [h \in Handlers |-> IdlePass]
    /\ response = NoResponse
    /\ nRequests = 0
    /\ delivered = {}
    /\ last = NoCall

\* After line 147 no init thread runs lines 143-147 again: the lock is held
\* until the flag is set, and line 139 returns once it is.
NextPublish ==
    \/ home \/ qr_png \/ status \/ preview \/ ping
    \/ send_pending_call \/ send_pending_send \/ send_pending_confirm
    \/ init_all_enter \/ init_all_set_driver \/ init_all_set_wks \/ init_all_set_flag

SpecPublish == InitPublish /\ [][NextPublish]_vars

\* In SpecPublish no init thread enters the bring-up body again.
PublishOnce ==
    \A t \in DOMAIN threads : threads[t].pc \notin {"build", "connect"}

\* ============================================================ claims
\* A thread that has entered the bring-up body of init_all (lines 141-151).
EnteredBody(t) ==
    threads[t].pc \in {"build", "connect"} \/ threads[t].err # None \/ threads[t].d # None

\* The step is a call of send_pending (it either returns at once, leaving
\* its response, or enters the send loop).
SendPendingCalled ==
    /\ nRequests' = nRequests + 1
    /\ \/ response'.route = "/send_pending"
       \/ \E h \in Handlers : pass[h].pc = "idle" /\ pass'[h].pc = "send"

\* Ready with both handles present and a non-empty Destination Set.
ReadyToDispatch ==
    _initialized /\ driver # None /\ wks # None /\ DEST_NUMBERS # <<>>

\* C1: however many times ensure_init_async is called from the
\* uninitialised state, the bring-up body is entered once in total, whatever
\* the outcome of the bring-up: "Init: creando WebDriver..." (line 142) is
\* printed at most once.
C1_OneBringUp == stdout.creando <= 1

\* C2: a bring-up in which neither build_driver nor init_gspread raises ends
\* Ready with both handles published, whether the login poll reports true or
\* false.  Stated on the finished init thread.
C2_BringUpEndsReady ==
    \A t \in DOMAIN threads :
        threads[t].pc = "done" /\ threads[t].err \notin {"build_driver", "init_gspread"}
            => _initialized /\ driver # None /\ wks # None

\* C3: once a bring-up has failed, no later readiness check starts another
\* one: an init thread started after an "Init error" line was printed never
\* enters the bring-up body.
C3_NoBringUpAfterFailure ==
    \A t \in DOMAIN threads : threads[t].born > 0 => ~EnteredBody(t)

C10_Witness ==
    /\ response.route = "/send_pending"
    /\ response.code = 503
    /\ DEST_NUMBERS # <<>>
    /\ \E t \in DOMAIN threads : threads[t].pc = "connect"
    /\ sheet = Unread

\* ------------------------------------------- claims about the routes
\* The step is a /preview call that returned a selection (a send_pending
\* call that enters its loop leaves the previous response in place).
PreviewStep ==
    /\ nRequests' = nRequests + 1
    /\ response'.route = "/preview"
    /\ response'.code = 200
    /\ ~\E h \in Handlers : pass[h].pc = "idle" /\ pass'[h].pc = "send"

\* The step is the write-back step of handler h's pass (lines 317-323).
ConfirmOf(h) == pass[h].pc = "confirm" /\ pass'[h] # pass[h]

\* The step is a send_whatsapp_text call of handler h's pass (line 312).
SendOf(h) == pass[h].pc = "send" /\ pass'[h] # pass[h]

\* The list `sent` of handler h's pass after a write-back step: the local,
\* or the list in the response when the step returned it (a 500 response
\* carries no list).
SentAfter(h) ==
    IF pass'[h].pc # "idle" THEN pass'[h].sent
    ELSE IF response'.code = 200 THEN response'.body.sent
    ELSE <<>>

\* The cell texts of the model that, trimmed and compared without regard to
\* case, equal "sí".
MarkedTexts == {"sí", " SÍ "}

\* The row is marked as sent.
IsMarked(row) == Get(row, "Enviado") \in MarkedTexts

\* The date texts of the model that are absent or no date.
NoDateTexts == {None, "", "  ", "bad-date"}

\* The row has no parseable date text.
HasNoDate(row) == FechaCell(row) \in NoDateTexts

\* The worksheet rows (row 1 is the header row) listed in a `sent` or
\* `to_send` list.
RowsIn(list) == { list[k].row : k \in DOMAIN list }

C4_UnlessWriteFails ==
    [][\A h \in Handlers :
         ConfirmOf(h) /\ ~(pass'[h].pc = "idle" /\ last'.ret = 500) =>
           LET p == pass[h]
               idx == p.i + 1
               allOk == \A k \in DOMAIN p.attempts : p.attempts[k].ok
               marked == Get(sheet'.rows[idx - 1], "Enviado") = "sí"
               inSent == idx \in RowsIn(SentAfter(h))
           IN  /\ Len(p.attempts) = Len(DEST_NUMBERS)
               /\ allOk <=> (marked /\ inSent)
               /\ ~allOk => sheet' = sheet /\ ~inSent]_vars

FullPassBefore ==
    /\ \A h \in Handlers : pass[h].pc = "idle"
    /\ last.ret = 200
    /\ last.failed = {}
    /\ last.hoy = clock'
    /\ last.after = sheet

\* C6: a send_pending call right after a pass in which every selected row was
\* sent and marked, with the same today and the worksheet unchanged, sends
\* nothing, writes nothing and returns an empty sent list with count 0.
C6_SecondPassEmpty ==
    [][SendPendingCalled /\ FullPassBefore
         => /\ response'.route = "/send_pending"
            /\ response'.code = 200
            /\ response'.body.sent = <<>>
            /\ response'.body.count = 0
            /\ sheet' = sheet
            /\ delivered' = delivered
            /\ \A h \in Handlers : pass'[h].pc = "idle"]_vars

\* C6's case: of two requests on the same day, the first was a pass that
\* sent rows to every destination and the second a send_pending call that
\* found the worksheet as that pass left it and returned an empty list.
C6_Witness ==
    /\ nRequests = 2
    /\ clock = Day(1)
    /\ delivered # {}
    /\ \A r \in delivered : Get(sheet.rows[r - 1], "Enviado") = SI
    /\ response.route = "/send_pending" /\ response.code = 200
    /\ response.body.count = 0
    /\ last.ret = 200 /\ last.failed = {} /\ last.after = sheet
    /\ \A h \in Handlers : pass[h].pc = "idle"

\* C7: no selection, in /preview or in send_pending, contains a row marked
\* "sí" (trimmed, any case) or a row whose date text is absent or no date.
C7_NeverSelected ==
    [][/\ PreviewStep =>
            \A r \in RowsIn(response'.body.to_send) :
                LET row == response'.seen.rows[r - 1]
                IN  ~IsMarked(row) /\ ~HasNoDate(row)
       /\ \A h \in Handlers :
            pass'[h].pc \in {"send", "confirm"} =>
                LET row == pass'[h].records[pass'[h].i]
                IN  ~IsMarked(row) /\ ~HasNoDate(row)]_vars

\* C7's case: /preview listed one row of a worksheet of two, the other being
\* marked or without a date, while a pass was sending for a selected row.
C7_Witness ==
    /\ response.route = "/preview" /\ response.code = 200
    /\ Len(response.seen.rows) = 2
    /\ Len(response.body.to_send) = 1
    /\ \E i \in 1..2 : IsMarked(response.seen.rows[i]) \/ HasNoDate(response.seen.rows[i])
    /\ \E h \in Handlers : pass[h].pc = "send"

\* C8: /preview lists an unmarked row with a parseable date if and only if
\* its date is today (mode today) or not after today (mode until_today); the
\* list is in worksheet order and the first data row is row 2.
C8_SelectedIffDue ==
    [][PreviewStep =>
         LET rows == response'.seen.rows
             out == response'.body.to_send
         IN  /\ \A i \in DOMAIN rows :
                  ~IsMarked(rows[i]) /\ ~HasNoDate(rows[i]) =>
                     LET fecha == parse_ddmmyy(FechaCell(rows[i]))
                     IN  (i + 1) \in RowsIn(out)
                            <=> IF SEND_MODE = "today" THEN fecha = clock'
                                ELSE fecha <= clock'
             /\ \A k \in DOMAIN out : out[k].row \in 2..(Len(rows) + 1)
             /\ \A k1, k2 \in DOMAIN out : k1 < k2 => out[k1].row < out[k2].row]_vars

\* C8's case: in mode until_today, /preview listed rows 2 and 3, one due
\* today and one due before.
C8_Witness ==
    /\ response.route = "/preview" /\ response.code = 200
    /\ SEND_MODE = "until_today"
    /\ Len(response.body.to_send) = 2
    /\ response.body.to_send[1].row = 2
    /\ response.body.to_send[2].row = 3
    /\ response.body.to_send[1].Fecha # response.body.to_send[2].Fecha

C11_NoEnviadoColumn ==
    [][SendPendingCalled /\ ReadyToDispatch /\ "Enviado" \notin Range(sheet'.header)
         => /\ response'.route = "/send_pending"
            /\ response'.code = 400
            /\ last'.ret = 400
            /\ pass' = pass
            /\ delivered' = delivered
            /\ sheet # Unread => sheet' = sheet]_vars

\* C11's case: send_pending returned 400 although the Destination Set is
\* not empty, over a worksheet without the "Enviado" column that has a row
\* due on the day of the call.
C11_Witness ==
    /\ response.route = "/send_pending" /\ response.code = 400
    /\ DEST_NUMBERS # <<>>
    /\ sheet # Unread
    /\ "Enviado" \notin Range(sheet.header)
    /\ \E i \in DOMAIN sheet.rows : PreviewSelects(sheet.rows[i], SEND_MODE, clock)

\* The positions after i in the snapshot `records` of the rows that the
\* loop of lines 296-305 does not skip.
LaterSelected(p) ==
    { k \in (p.i + 1)..Len(p.records) : SendSelects(p.records[k], SEND_MODE, p.hoy) }

\* C12: a send_whatsapp_text call that raises does not end the pass: every
\* number of DEST_NUMBERS gets its call for the row, in the order of the
\* list, whatever the outcome of the calls before it; and after a row with
\* a failed send the pass goes on to the next selected row of its snapshot,
\* or, there being none, returns its 200 response with the list `sent`.
C12_SendFailureDoesNotAbort ==
    [][\A h \in Handlers :
         LET p == pass[h]
         IN  /\ SendOf(h) =>
                  /\ pass'[h].pc = "confirm"
                  /\ DOMAIN pass'[h].attempts = DOMAIN DEST_NUMBERS
                  /\ \A k \in DOMAIN DEST_NUMBERS :
                        /\ pass'[h].attempts[k].num = DEST_NUMBERS[k]
                        /\ pass'[h].attempts[k].row = p.i + 1
             /\ (ConfirmOf(h) /\ \E k \in DOMAIN p.attempts : ~p.attempts[k].ok) =>
                  IF LaterSelected(p) # {}
                  THEN /\ pass'[h].pc = "send"
                       /\ pass'[h].i \in LaterSelected(p)
                       /\ \A k \in LaterSelected(p) : pass'[h].i <= k
                       /\ pass'[h].sent = p.sent
                  ELSE /\ pass'[h].pc = "idle"
                       /\ response'.route = "/send_pending"
                       /\ response'.code = 200
                       /\ response'.body.sent = p.sent]_vars

\* C12's case: a pass for which a send of row 2 raised has gone on to row 3,
\* where the call for the first number returned and the call for the second
\* raised.
C12_Witness ==
    \E h \in Handlers :
        /\ pass[h].pc = "confirm"
        /\ pass[h].i + 1 = 3
        /\ 2 \in pass[h].failed
        /\ Len(pass[h].attempts) = 2
        /\ pass[h].attempts[1].ok /\ ~pass[h].attempts[2].ok

StatusStep == nRequests' = nRequests + 1 /\ response'.route = "/status"

\* What /status answers on a process whose bring-up has not started or is
\* inside its body: nothing initialised, no handle, not logged in.
FreshStatus ==
    [initialized |-> FALSE, driver |-> FALSE, worksheet |-> FALSE, logged_in |-> FALSE]

\* C14: once a bring-up step has raised, /status answers something other
\* than what it answers before any bring-up failed.
C14_FailureShownInStatus ==
    [][(StatusStep /\ \E t \in DOMAIN threads : threads[t].err # None)
          => response'.body # FreshStatus]_vars

\* A thread inside the bring-up body of init_all (lines 141-151).
InBody(t) == threads[t].pc \in {"build", "connect", "set_driver", "set_wks", "set_flag"}

\* C15: at no time are two init threads inside the bring-up body, and the
\* one inside holds the lock.
C15_OneBringUpAtATime ==
    /\ \A t1, t2 \in DOMAIN threads : InBody(t1) /\ InBody(t2) => t1 = t2
    /\ \A t \in DOMAIN threads : InBody(t) => _init_lock = t

\* C15's case: a thread is inside the body while another one, started by a
\* later request, is waiting for the lock.
C15_Witness ==
    \E t1, t2 \in DOMAIN threads :
        /\ threads[t1].pc = "connect"
        /\ threads[t2].pc = "start"
        /\ nRequests = 2

\* ------------------------------------------ claims about the send loop
\* C16: in a pass the sends of a row go to the numbers of DEST_NUMBERS in
\* the order of the list, the row is below every row the pass has handled
\* before, no cell is written while the row's sends are made, the
\* write-back comes after the send to the last number, and the sends of the
\* next row come after the write-back, for a row further down.
C16_RowThenDestinationOrder ==
    [][\A h \in Handlers :
         LET p == pass[h]
         IN  /\ SendOf(h) =>
                  /\ p.attempts = <<>>
                  /\ Len(pass'[h].attempts) = Len(DEST_NUMBERS)
                  /\ \A k \in 1..Len(DEST_NUMBERS) :
                        /\ pass'[h].attempts[k].num = DEST_NUMBERS[k]
                        /\ pass'[h].attempts[k].row = p.i + 1
                  /\ \A r \in RowsIn(p.sent) \cup p.failed : r < p.i + 1
                  /\ pass'[h].pc = "confirm"
                  /\ sheet' = sheet
             /\ ConfirmOf(h) =>
                  /\ Len(p.attempts) = Len(DEST_NUMBERS)
                  /\ \A k \in 1..Len(p.attempts) : p.attempts[k].row = p.i + 1
                  /\ pass'[h].pc = "send" =>
                        /\ pass'[h].i > p.i
                        /\ pass'[h].attempts = <<>>]_vars

\* C16's case: a pass has sent row 2 to both numbers and written its cell,
\* and has made the sends of row 3, whose write-back is next.
C16_Witness ==
    \E h \in Handlers :
        /\ pass[h].pc = "confirm"
        /\ pass[h].i + 1 = 3
        /\ RowsIn(pass[h].sent) = {2}
        /\ Get(sheet.rows[1], "Enviado") = SI
        /\ Len(pass[h].attempts) = 2
        /\ pass[h].attempts[1].num # pass[h].attempts[2].num

\* C17: each handle is assigned at most once (it only ever changes from
\* None), once _initialized is set neither handle nor the flag changes, and
\* no init thread is then inside the body that holds the assignments.
C17_HandlesWriteOnce ==
    /\ [][/\ driver' # driver => driver = None
          /\ wks' # wks => wks = None
          /\ _initialized => /\ _initialized'
                              /\ driver' = driver
                              /\ wks' = wks]_vars
    /\ [](_initialized => \A t \in DOMAIN threads : ~InBody(t))

\* C17's case: the handles and the flag are set; an init thread started
\* while they were being assigned has since taken the lock and returned,
\* and a request made after that started no further thread.
C17_Witness ==
    /\ _initialized /\ driver = "WebDriver" /\ wks = "Worksheet"
    /\ Len(threads) = 2
    /\ \A t \in DOMAIN threads : threads[t].pc = "done"
    /\ nRequests = 2
    /\ stdout.creando = 1

PreviewRows(p) ==
    LET sel == PendingFrom(p.records, 1, SEND_MODE, p.hoy)
    IN  [k \in DOMAIN sel |-> sel[k].row]

\* The rows for which pass p has called send_whatsapp_text so far.
AttemptedRows(p) ==
    RowsIn(p.sent) \cup p.failed \cup (IF p.pc = "confirm" THEN {p.i + 1} ELSE {})

\* While a pass runs, the row it is at is one of the rows /preview lists for
\* its snapshot, and the rows it handled before are exactly the ones
\* /preview lists before that row.
AttemptsArePreviewPrefix ==
    \A h \in Handlers :
        pass[h].pc \in {"send", "confirm"}
          => LET p == pass[h]
                 rows == PreviewRows(p)
             IN  \E k \in DOMAIN rows :
                    /\ rows[k] = p.i + 1
                    /\ { rows[j] : j \in 1..(k - 1) }
                         = (RowsIn(p.sent) \cup p.failed) \ {p.i + 1}

C20_OnlyMarksSentRows ==
    [][(sheet # Unread /\ sheet' # sheet)
         => \E h \in Handlers :
               LET p == pass[h]
               IN  /\ p.pc = "confirm"
                   /\ p.ok_all
                   /\ \A k \in DOMAIN p.attempts : p.attempts[k].ok
                   /\ SendSelects(p.records[p.i], SEND_MODE, p.hoy)
                   /\ (p.i + 1) \in Range(PreviewRows(p))
                   /\ sheet'.header = sheet.header
                   /\ DOMAIN sheet'.rows = DOMAIN sheet.rows
                   /\ sheet'.rows[p.i]["Enviado"] = SI
                   /\ \A r \in DOMAIN sheet.rows, l \in Range(sheet.header) :
                         (r # p.i \/ l # "Enviado")
                           => sheet'.rows[r][l] = sheet.rows[r][l]]_vars

\* C20's case: a pass over two due rows has returned; the sends of row 2
\* succeeded and its "Enviado" cell now reads "sí", a send of row 3 failed
\* and its cell is still empty.
C20_Witness ==
    /\ sheet # Unread
    /\ Len(sheet.rows) = 2
    /\ "Enviado" \in Range(sheet.header)
    /\ sheet.rows[1]["Enviado"] = SI
    /\ sheet.rows[2]["Enviado"] = ""
    /\ delivered = {2}
    /\ last.ret = 200 /\ last.failed = {3}
    /\ response.route = "/send_pending" /\ response.code = 200
    /\ \A h \in Handlers : pass[h].pc = "idle"

=============================================================================
